---- MODULE Spec2Model ----
(***************************************************************************)
(* Model of src/connect/tunnel/getsess.rs: get_session (independent and    *)
(* binder endpoint sources), connect_once (one detached pipe attempt) and  *)
(* replace_dead (the background bridge refresher).                         *)
(*                                                                         *)
(* Arc<Multiplex> is modelled by its strong owners: the Arc that           *)
(* get_session creates and hands to its caller (owner), and one clone per  *)
(* detached attempt task (attempts).  The refresher holds a Weak and is    *)
(* registered as a drop friend of the Multiplex: its Task handle is        *)
(* dropped, and the task thereby cancelled at its next suspension point,   *)
(* when the last strong owner goes away.                                   *)
(***************************************************************************)
EXTENDS Naturals, Sequences, FiniteSets, Bags, TLC

\* ------------------------------------------------------------------ bounds

\* Longest bridge list the discovery cache returns.
MaxBridges == 2
\* Most detached attempt tasks in flight when a refresh cycle spawns more.
MaxInFlight == 2
\* Most pipes the multiplex holds in discovered mode.
MaxPipes == 2

\* ------------------------------------------------------- program constants

\* for _ in 0..4
NumPipes == 4
\* <[u8; 32]>::try_from
KeyLen == 32
\* Duration::from_secs(300), the refresher's timer
RefreshSecs == 300
\* Duration::from_secs(10), the timeout of a connect
TimeoutSecs == 10

None == "None"
Err == "Err"
\* A failed Result, whatever its Ok type.
Failed == [ok |-> FALSE]
\* A local whose value was moved out of it.
Moved == [ok |-> FALSE, moved |-> TRUE]

\* ------------------------------------------------------------ text helpers

HexDigits == <<"0", "1", "2", "3", "4", "5", "6", "7", "8", "9", "a", "b", "c", "d", "e", "f">>

Rep(c, n) == [i \in 1..n |-> c]

\* The places of sep in s, and the k-th of them (0 before the first, Len(s) + 1
\* after the last).
SepPlaces(s, sep) == {i \in 1..Len(s) : s[i] = sep}

SepPlace(s, sep, k) ==
    IF k = 0 THEN 0
    ELSE IF k > Cardinality(SepPlaces(s, sep)) THEN Len(s) + 1
    ELSE CHOOSE p \in SepPlaces(s, sep) :
             Cardinality({q \in SepPlaces(s, sep) : q < p}) = k - 1

\* str::split: the pieces of s between occurrences of sep (always at least one piece).
Split(s, sep) ==
    [k \in 1..(Cardinality(SepPlaces(s, sep)) + 1) |->
        SubSeq(s, SepPlace(s, sep, k - 1) + 1, SepPlace(s, sep, k) - 1)]

\* hex::decode reads the letters in either case.
HexDigitsUpper == <<"0", "1", "2", "3", "4", "5", "6", "7", "8", "9", "A", "B", "C", "D", "E", "F">>

IsHexDigit(c) == \E i \in 1..Len(HexDigits) : HexDigits[i] = c \/ HexDigitsUpper[i] = c

HexVal(c) == (CHOOSE i \in 1..Len(HexDigits) : HexDigits[i] = c \/ HexDigitsUpper[i] = c) - 1

\* hex::decode: Err on odd length or a non-hex character, else one byte per pair.
HexDecode(s) ==
    IF Len(s) % 2 # 0 \/ \E i \in 1..Len(s) : ~IsHexDigit(s[i])
    THEN Failed
    ELSE [ok |-> TRUE,
          bytes |-> [i \in 1..(Len(s) \div 2) |->
                        16 * HexVal(s[2 * i - 1]) + HexVal(s[2 * i])]]

\* The host:port texts of the inputs and what str::parse::<SocketAddr> makes of them.
AddrText1 == <<"1", ".", "2", ".", "3", ".", "4", ":", "8", "0">>
AddrTextBadPort == <<"1", ".", "2", ".", "3", ".", "4", ":", "x">>

ParseSocketAddr(s) ==
    IF s = AddrText1 THEN "1.2.3.4:80" ELSE Err

\* parse_independent_endpoint: Failed, or Ok((server_addr, server_pk)).
parse_independent_endpoint(endpoint) ==
    LET pk_and_url == Split(endpoint, "@")
        decoded == HexDecode(pk_and_url[1])
    IN  IF ~decoded.ok THEN Failed
        ELSE IF Len(decoded.bytes) # KeyLen THEN Failed
        ELSE IF Len(pk_and_url) < 2 THEN Failed
        ELSE IF ParseSocketAddr(pk_and_url[2]) = Err THEN Failed
        ELSE [ok |-> TRUE, addr |-> ParseSocketAddr(pk_and_url[2]), pk |-> decoded.bytes]

\* -------------------------------------------------------------- the inputs

HexKey == [i \in 1..(2 * KeyLen) |-> IF i % 2 = 1 THEN "a" ELSE "7"]

HexKeyUpper == [i \in 1..(2 * KeyLen) |-> IF i % 2 = 1 THEN "B" ELSE "c"]

\* Well formed, twice; a second '@'; no '@'; not hex; a 31-byte key; a bad port.
IndependentEndpoints ==
    { HexKey \o <<"@">> \o AddrText1,
      HexKeyUpper \o <<"@">> \o AddrText1,
      HexKey \o <<"@">> \o AddrText1 \o <<"@">> \o AddrText1,
      HexKey,
      Rep("z", 2 * KeyLen) \o <<"@">> \o AddrText1,
      Rep("a", 2 * KeyLen - 2) \o <<"@">> \o AddrText1,
      HexKey \o <<"@">> \o AddrTextBadPort }

UDP == "sosistab2-obfsudp"
TLS == "sosistab2-obfstls"

\* BridgeDescriptor.  sosistab_key is the blob as bincode reads it: a pair
\* (ObfsUdpPublic, MuxPublic) when it decodes, an opaque cookie otherwise.
BridgeUniverse ==
    { [endpoint |-> "a1", protocol |-> UDP, sosistab_key |-> <<"u1", "e2e">>, is_direct |-> FALSE],
      [endpoint |-> "a2", protocol |-> UDP, sosistab_key |-> <<"junk">>, is_direct |-> TRUE],
      [endpoint |-> "a3", protocol |-> TLS, sosistab_key |-> <<"cookie">>, is_direct |-> FALSE],
      [endpoint |-> "a4", protocol |-> "sosistab3", sosistab_key |-> <<"cookie">>, is_direct |-> FALSE] }

RECURSIVE SeqsUpTo(_, _)
SeqsUpTo(S, n) ==
    IF n = 0 THEN {<<>>}
    ELSE LET shorter == SeqsUpTo(S, n - 1)
         IN  shorter \cup {Append(s, x) : s \in shorter, x \in S}

Distinct(s) == \A i, j \in 1..Len(s) : i # j => s[i].endpoint # s[j].endpoint

\* What get_bridges_v2 can return on success: lists with distinct endpoints.
BridgeLists == {s \in SeqsUpTo(BridgeUniverse, MaxBridges) : Distinct(s)}

\* anyhow::Result<Vec<BridgeDescriptor>>, what get_bridges_v2 returns.
BridgeResults == {Failed} \cup {[ok |-> TRUE, list |-> s] : s \in BridgeLists}

\* BinderTunnelParams.force_protocol: None or a regular expression.
ForceProtocols == {None, "obfsudp", "wireguard", "("}

\* Regex::new(p) succeeds.
RegexValid(p) == p # "("

\* Regex::is_match of a literal pattern: it occurs in the text.
RegexIsMatch(p, text) ==
    \/ p = "obfsudp" /\ text = UDP
    \/ p = "obfstls" /\ text = TLS
    \/ p = "sosistab2" /\ text \in {UDP, TLS}

\* ctx.endpoint
EndpointSources ==
    [tag : {"Independent"}, endpoint : IndependentEndpoints]
    \cup [tag : {"Binder"}, use_bridges : BOOLEAN, force_protocol : ForceProtocols]

\* rand::thread_rng().gen::<u128>(): the value drawn changes no behaviour.
SessIds == {"s1"}

\* ---------------------------------------------------------------- the state

VARIABLES
    ctx,            \* TunnelCtx.endpoint, the endpoint source
    gs_pc,          \* where get_session is
    result,         \* what get_session returned: "pending", "ok", "err"
    error,          \* the error it returned, or None
    peer,           \* independent mode: what parse_independent_endpoint returned
    gs_bridges,     \* binder mode: what get_bridges_v2 returned to get_session
    mux,            \* the Multiplex: "none", "live", "dropped"
    peer_key,       \* the Multiplex's expected MuxPublic, or None
    sess_id,        \* the session identifier, or None
    owner,          \* the Arc get_session created is held (by it, then by its caller)
    pipes,          \* the Multiplex's pipes, a bag of [peer_addr, protocol, meta]
    connect_calls,  \* independent mode: ObfsUdpPipe::connect calls started
    attempts,       \* detached connect_once tasks in flight, a bag of [desc, meta, st]
    notified,       \* endpoints given to status_callback as PreConnect
    rd_pc,          \* where replace_dead is
    rd_last,        \* the last thing replace_dead did
    rd_bridges,     \* what get_bridges_v2 returned in its latest cycle
    rd_same,        \* that list equals the list of the cycle before
    refreshers,     \* replace_dead tasks spawned so far
    tally           \* the bootstrap attempts: how many were spawned, succeeded, failed

vars == <<ctx, gs_pc, result, error, peer, gs_bridges, mux, peer_key, sess_id, owner,
          pipes, connect_calls, attempts, notified, rd_pc, rd_last, rd_bridges,
          rd_same, refreshers, tally>>

\* No bootstrap attempts are being counted: none were spawned yet, or the
\* refresher has begun to spawn attempts of its own.
NoTally == [open |-> FALSE, n |-> 0, ok |-> 0, failed |-> 0]

gs_vars == <<gs_pc, result, error, peer, gs_bridges, peer_key, sess_id, connect_calls>>
rd_vars == <<rd_pc, rd_last, rd_bridges, rd_same>>

Init ==
    /\ ctx \in EndpointSources
    /\ gs_pc = "start"
    /\ result = "pending"
    /\ error = None
    /\ peer = Failed
    /\ gs_bridges = Failed
    /\ mux = "none"
    /\ peer_key = None
    /\ sess_id = None
    /\ owner = FALSE
    /\ pipes = EmptyBag
    /\ connect_calls = 0
    /\ attempts = EmptyBag
    /\ notified = {}
    /\ rd_pc = "none"
    /\ rd_last = "none"
    /\ rd_bridges = Failed
    /\ rd_same = FALSE
    /\ refreshers = 0
    /\ tally = NoTally

\* ------------------------------------------------- the Arc and drop friends

\* Mutant of NoStrong: the refresher holds an Arc, not a Weak.
NoStrong_CountsRefresher(o, att) ==
    ~o /\ att = EmptyBag /\ rd_pc \in {"none", "cancelled"}

\* No strong owner is left: neither the caller's Arc nor a task's clone.
NoStrong(o, att) == ~o /\ att = EmptyBag

\* The Multiplex after the owners became (o, att): dropped with its last Arc.
MuxAfter(o, att) ==
    IF mux = "live" /\ NoStrong(o, att) THEN "dropped" ELSE mux

\* add_drop_friend: the refresher's Task is dropped with the Multiplex.  A task
\* suspended at an await is cancelled there; one being polled runs on to its
\* next await.
FriendAfter(o, att) ==
    IF mux = "live" /\ NoStrong(o, att) /\ rd_pc \in {"idle", "fetching"}
    THEN "cancelled"
    ELSE rd_pc

\* ------------------------------------------- get_session, independent mode

Fail(kind) ==
    /\ result' = "err"
    /\ error' = kind
    /\ gs_pc' = "done"

\* Mutant of IndependentPipe: a session id drawn anew for every connect but the first.
IndependentPipe_FreshMeta(addr, sessid) ==
    [peer_addr |-> addr, protocol |-> UDP,
     meta |-> IF connect_calls = 1 THEN sessid ELSE "fresh"]

\* The pipe ObfsUdpPipe::connect(addr, obfs_pk, &sessid) yields.
IndependentPipe(addr, sessid) ==
    [peer_addr |-> addr, protocol |-> UDP, meta |-> sessid]

\* Lines 38-41: parse the endpoint, draw the session id, create the Multiplex.
GsParse ==
    /\ gs_pc = "start"
    /\ ctx.tag = "Independent"
    /\ LET r == parse_independent_endpoint(ctx.endpoint)
       IN  IF ~r.ok
           THEN /\ Fail("format")
                /\ UNCHANGED <<peer, sess_id, mux, owner, peer_key>>
           ELSE /\ peer' = r
                /\ sess_id' \in SessIds
                /\ mux' = "live"
                /\ owner' = TRUE
                /\ peer_key' = None
                /\ gs_pc' = "connect"
                /\ UNCHANGED <<result, error>>
    /\ UNCHANGED <<ctx, gs_bridges, pipes, connect_calls, attempts, notified>>
    /\ UNCHANGED rd_vars
    /\ UNCHANGED <<refreshers, tally>>

\* Line 43: one iteration of the loop starts its connect and awaits it.
GsConnectStart ==
    /\ gs_pc = "connect"
    /\ gs_pc' = "connecting"
    /\ connect_calls' = connect_calls + 1
    /\ UNCHANGED <<ctx, result, error, peer, gs_bridges, mux, peer_key, sess_id, owner,
                   pipes, attempts, notified>>
    /\ UNCHANGED rd_vars
    /\ UNCHANGED <<refreshers, tally>>

\* Lines 43-46: the connect succeeded; add the pipe; after the last one return Ok.
GsConnectOk ==
    /\ gs_pc = "connecting"
    /\ pipes' = pipes (+) SetToBag({IndependentPipe(peer.addr, sess_id)})
    /\ IF BagCardinality(pipes) + 1 = NumPipes
       THEN /\ gs_pc' = "done"
            /\ result' = "ok"
       ELSE /\ gs_pc' = "connect"
            /\ UNCHANGED result
    /\ UNCHANGED <<ctx, error, peer, gs_bridges, mux, peer_key, sess_id, owner,
                   connect_calls, attempts, notified>>
    /\ UNCHANGED rd_vars
    /\ UNCHANGED <<refreshers, tally>>

\* Mutant of GsConnectErr: the failed connect is tried again.
GsConnectErr_Retry ==
    /\ gs_pc = "connecting"
    /\ gs_pc' = "connect"
    /\ UNCHANGED <<ctx, result, error, peer, gs_bridges, mux, peer_key, sess_id, owner,
                   pipes, connect_calls, attempts, notified>>
    /\ UNCHANGED rd_vars
    /\ UNCHANGED <<refreshers, tally>>

\* Line 43: the connect failed; `?` returns the error and drops the Multiplex.
GsConnectErr ==
    /\ gs_pc = "connecting"
    /\ Fail("connect")
    /\ owner' = FALSE
    /\ mux' = "dropped"
    /\ UNCHANGED <<ctx, peer, gs_bridges, peer_key, sess_id, pipes, connect_calls,
                   attempts, notified>>
    /\ UNCHANGED rd_vars
    /\ UNCHANGED <<refreshers, tally>>

\* ------------------------------------------------ get_session, binder mode

\* bincode::deserialize::<(ObfsUdpPublic, MuxPublic)>
BincodeKeys(blob) ==
    IF Len(blob) = 2 THEN [ok |-> TRUE, udp |-> blob[1], mux |-> blob[2]] ELSE Failed

\* Mutant of DeduceE2eKey: only the first bridge of the list is looked at.
DeduceE2eKey_FirstOnly(bridges) ==
    IF bridges # <<>> /\ bridges[1].protocol = UDP /\ BincodeKeys(bridges[1].sosistab_key).ok
    THEN BincodeKeys(bridges[1].sosistab_key).mux
    ELSE None

\* Lines 66-78: the MuxPublic of the last obfsudp bridge whose key decodes.
DeduceE2eKey(bridges) ==
    LET good == {i \in 1..Len(bridges) :
                    bridges[i].protocol = UDP /\ BincodeKeys(bridges[i].sosistab_key).ok}
    IN  IF good = {} THEN None
        ELSE BincodeKeys(bridges[CHOOSE i \in good : \A j \in good : j <= i].sosistab_key).mux

\* Mutant of Attempt: every task draws a session identifier of its own.
Attempt_OwnId(bridge, sessid) == [desc |-> bridge, meta |-> "fresh", st |-> "start"]

\* The detached task spawned for one bridge: connect_once(ctx, bridge, &sess_id).
Attempt(bridge, sessid) == [desc |-> bridge, meta |-> sessid, st |-> "start"]

\* The tasks spawned for a list of bridges, one each.
RECURSIVE Spawned(_, _)
Spawned(bridges, sessid) ==
    IF bridges = <<>> THEN EmptyBag
    ELSE SetToBag({Attempt(Head(bridges), sessid)}) (+) Spawned(Tail(bridges), sessid)

\* Lines 49-53: get_closest_exit.
GsClosestExit ==
    /\ gs_pc = "start"
    /\ ctx.tag = "Binder"
    /\ \E ok \in BOOLEAN :
          IF ok THEN gs_pc' = "get_bridges" /\ UNCHANGED <<result, error>>
          ELSE Fail("closest_exit")
    /\ UNCHANGED <<ctx, peer, gs_bridges, mux, peer_key, sess_id, owner, pipes,
                   connect_calls, attempts, notified>>
    /\ UNCHANGED rd_vars
    /\ UNCHANGED <<refreshers, tally>>

\* Lines 55-59: get_bridges_v2(hostname, false).
GsGetBridges ==
    /\ gs_pc = "get_bridges"
    /\ \E r \in BridgeResults :
          /\ gs_bridges' = r
          /\ IF r.ok THEN gs_pc' = "build" /\ UNCHANGED <<result, error>>
             ELSE Fail("bridges")
    /\ UNCHANGED <<ctx, peer, mux, peer_key, sess_id, owner, pipes, connect_calls,
                   attempts, notified>>
    /\ UNCHANGED rd_vars
    /\ UNCHANGED <<refreshers, tally>>

\* Mutant of GsBuild: the Multiplex is created before the list is looked at, and
\* dropped again when the list is empty or yields no key.
GsBuild_CreatesFirst ==
    /\ gs_pc = "build"
    /\ IF gs_bridges.list = <<>> \/ DeduceE2eKey(gs_bridges.list) = None
       THEN /\ Fail(IF gs_bridges.list = <<>> THEN "no_routes" ELSE "no_key")
            /\ mux' = "dropped"
            /\ UNCHANGED <<peer_key, sess_id, owner>>
       ELSE /\ mux' = "live"
            /\ owner' = TRUE
            /\ peer_key' = DeduceE2eKey(gs_bridges.list)
            /\ sess_id' \in SessIds
            /\ gs_pc' = "spawn"
            /\ UNCHANGED <<result, error>>
    /\ UNCHANGED <<ctx, peer, gs_bridges, pipes, connect_calls, attempts, notified>>
    /\ UNCHANGED rd_vars
    /\ UNCHANGED <<refreshers, tally>>

\* Lines 60-84: the empty check, the end-to-end key, the Multiplex, the session id.
GsBuild ==
    /\ gs_pc = "build"
    /\ IF gs_bridges.list = <<>>
       THEN /\ Fail("no_routes")
            /\ UNCHANGED <<mux, peer_key, sess_id, owner>>
       ELSE IF DeduceE2eKey(gs_bridges.list) = None
       THEN /\ Fail("no_key")
            /\ UNCHANGED <<mux, peer_key, sess_id, owner>>
       ELSE /\ mux' = "live"
            /\ owner' = TRUE
            /\ peer_key' = DeduceE2eKey(gs_bridges.list)
            /\ sess_id' \in SessIds
            /\ gs_pc' = "spawn"
            /\ UNCHANGED <<result, error>>
    /\ UNCHANGED <<ctx, peer, gs_bridges, pipes, connect_calls, attempts, notified>>
    /\ UNCHANGED rd_vars
    /\ UNCHANGED <<refreshers, tally>>

\* Lines 85-110: one detached task per bridge, each with a clone of the Arc;
\* into_iter() consumes the list.
GsSpawn ==
    /\ gs_pc = "spawn"
    /\ attempts' = attempts (+) Spawned(gs_bridges.list, sess_id)
    /\ gs_pc' = "refresher"
    /\ gs_bridges' = Moved
    /\ UNCHANGED <<ctx, result, error, peer, mux, peer_key, sess_id, owner,
                   pipes, connect_calls, notified>>
    /\ UNCHANGED rd_vars
    /\ tally' = [open |-> TRUE, n |-> Len(gs_bridges.list), ok |-> 0, failed |-> 0]
    /\ UNCHANGED refreshers

\* Mutant of GsReturn: get_session joins the attempt tasks before it returns.
GsReturn_AwaitsAttempts ==
    /\ gs_pc = "refresher"
    /\ attempts = EmptyBag
    /\ rd_pc' = "idle"
    /\ rd_last' = "spawned"
    /\ gs_pc' = "done"
    /\ result' = "ok"
    /\ refreshers' = refreshers + 1
    /\ UNCHANGED <<ctx, error, peer, gs_bridges, mux, peer_key, sess_id, owner, pipes,
                   connect_calls, attempts, notified, rd_bridges, rd_same, tally>>

\* Lines 112-122: spawn replace_dead with a Weak, register it as a drop friend,
\* return the Arc.
GsReturn ==
    /\ gs_pc = "refresher"
    /\ rd_pc' = "idle"
    /\ rd_last' = "spawned"
    /\ gs_pc' = "done"
    /\ result' = "ok"
    /\ UNCHANGED <<ctx, error, peer, gs_bridges, mux, peer_key, sess_id, owner, pipes,
                   connect_calls, attempts, notified, rd_bridges, rd_same>>
    /\ refreshers' = refreshers + 1
    /\ UNCHANGED tally

\* The caller drops the Arc that get_session returned.
OwnerRelease ==
    /\ result = "ok"
    /\ owner
    /\ owner' = FALSE
    /\ mux' = MuxAfter(FALSE, attempts)
    /\ rd_pc' = FriendAfter(FALSE, attempts)
    /\ UNCHANGED <<ctx, pipes, attempts, notified, rd_last, rd_bridges, rd_same>>
    /\ UNCHANGED gs_vars
    /\ UNCHANGED <<refreshers, tally>>

\* ------------------------------------------------------------- connect_once

\* Mutant of ConnectOnceFilter: the use_bridges check of a direct descriptor is missing.
ConnectOnceFilter_NoDirect(c, desc) ==
    IF c.tag # "Binder" THEN "pass"
    ELSE IF c.force_protocol = None THEN "pass"
    ELSE IF ~RegexValid(c.force_protocol) THEN "invalid protocol force"
    ELSE IF ~RegexIsMatch(c.force_protocol, desc.protocol) THEN "skipping non-matching protocol"
    ELSE "pass"

\* Lines 132-142: the policy filter; "pass" or the error it bails with.
ConnectOnceFilter(c, desc) ==
    IF c.tag # "Binder" THEN "pass"
    ELSE IF c.use_bridges /\ desc.is_direct THEN "skipping direct connection"
    ELSE IF c.force_protocol = None THEN "pass"
    ELSE IF ~RegexValid(c.force_protocol) THEN "invalid protocol force"
    ELSE IF ~RegexIsMatch(c.force_protocol, desc.protocol) THEN "skipping non-matching protocol"
    ELSE "pass"

\* Lines 143-183 up to the connect's await: "io" when a connect was started,
\* else the error.
ConnectOnceDispatch(desc) ==
    IF desc.protocol = UDP
    THEN IF BincodeKeys(desc.sosistab_key).ok THEN "io" ELSE "cannot decode keys"
    ELSE IF desc.protocol = TLS THEN "io"
    ELSE "unknown protocol"

\* The pipe a successful connect yields.
ConnectedPipe(desc, meta) ==
    [peer_addr |-> desc.endpoint, protocol |-> desc.protocol, meta |-> meta]

\* One bootstrap attempt ended with the outcome ("ok" or "failed").
Tallied(outcome) ==
    tally' = IF tally.open THEN [tally EXCEPT ![outcome] = @ + 1] ELSE tally

\* The detached task of attempt a ends and drops its clone of the Arc.
AttemptEnds(a) ==
    LET left == attempts (-) SetToBag({a})
    IN  /\ attempts' = left
        /\ mux' = MuxAfter(owner, left)
        /\ rd_pc' = FriendAfter(owner, left)

\* Lines 132-153: the task's first poll: filter, then dispatch on the protocol,
\* the PreConnect status of an obfsudp bridge coming before its keys are decoded.
AttemptStart(a) ==
    /\ a.st = "start"
    /\ IF ConnectOnceFilter(ctx, a.desc) # "pass"
       THEN /\ AttemptEnds(a)
            /\ Tallied("failed")
            /\ UNCHANGED notified
       ELSE /\ notified' = IF a.desc.protocol = UDP
                           THEN notified \cup {a.desc.endpoint}
                           ELSE notified
            /\ IF ConnectOnceDispatch(a.desc) = "io"
               THEN /\ attempts' = (attempts (-) SetToBag({a}))
                                       (+) SetToBag({[a EXCEPT !.st = "io"]})
                    /\ UNCHANGED <<mux, rd_pc, tally>>
               ELSE AttemptEnds(a) /\ Tallied("failed")
    /\ UNCHANGED <<ctx, owner, pipes, rd_last, rd_bridges, rd_same>>
    /\ UNCHANGED gs_vars
    /\ UNCHANGED refreshers

\* Lines 91-98 and 215-222: the connect succeeded; the task adds the pipe.
AttemptOk(a) ==
    /\ a.st = "io"
    /\ BagCardinality(pipes) < MaxPipes
    /\ pipes' = pipes (+) SetToBag({ConnectedPipe(a.desc, a.meta)})
    /\ AttemptEnds(a)
    /\ UNCHANGED <<ctx, owner, notified, rd_last, rd_bridges, rd_same>>
    /\ UNCHANGED gs_vars
    /\ Tallied("ok")
    /\ UNCHANGED refreshers

\* Mutant of AttemptErr: the failure of one attempt aborts its siblings too.
AttemptErr_AbortsSiblings(a) ==
    /\ a.st = "io"
    /\ attempts' = EmptyBag
    /\ mux' = MuxAfter(owner, EmptyBag)
    /\ rd_pc' = FriendAfter(owner, EmptyBag)
    /\ Tallied("failed")
    /\ UNCHANGED <<ctx, owner, pipes, notified, rd_last, rd_bridges, rd_same, refreshers>>
    /\ UNCHANGED gs_vars

\* Lines 99-106 and 223-230: the connect returned an error; it is logged.
AttemptErr(a) ==
    /\ a.st = "io"
    /\ AttemptEnds(a)
    /\ UNCHANGED <<ctx, owner, pipes, notified, rd_last, rd_bridges, rd_same>>
    /\ UNCHANGED gs_vars
    /\ Tallied("failed")
    /\ UNCHANGED refreshers

\* Mutant of AttemptTimeout: the connect is awaited without a deadline.
AttemptTimeout_NoDeadline(a) ==
    /\ a.st = "io"
    /\ FALSE
    /\ UNCHANGED vars

\* Lines 154-156 and 175-177: the 10 s timeout fired first; it is logged.
AttemptTimeout(a) ==
    /\ a.st = "io"
    /\ AttemptEnds(a)
    /\ UNCHANGED <<ctx, owner, pipes, notified, rd_last, rd_bridges, rd_same>>
    /\ UNCHANGED gs_vars
    /\ Tallied("failed")
    /\ UNCHANGED refreshers

\* ------------------------------------------------------------- replace_dead

\* Line 200: the peer addresses of iter_pipes().
CurrentAddrs(ps) == {p.peer_addr : p \in BagToSet(ps)}

\* Mutant of NewBridges: every bridge of the list counts as new.
NewBridges_NoFilter(bridges, current) == bridges

\* Lines 201-208: the bridges no current pipe is connected to.
NewBridges(bridges, current) ==
    SelectSeq(bridges, LAMBDA br : br.endpoint \notin current)

\* Line 195: the 300 s timer of the outer loop fired.  Nothing spawns an attempt
\* while replace_dead waits here, and an attempt that was in flight when the wait
\* began has ended within its 10 s timeout.
RdTimer ==
    /\ rd_pc = "idle"
    /\ TimeoutSecs < RefreshSecs => attempts = EmptyBag
    /\ rd_pc' = "loop"
    /\ rd_last' = "timer"
    /\ UNCHANGED <<ctx, mux, owner, pipes, attempts, notified, rd_bridges, rd_same>>
    /\ UNCHANGED gs_vars
    /\ tally' = NoTally
    /\ UNCHANGED refreshers

\* Lines 196-198: the top of the inner loop: call get_bridges_v2(hostname, true)
\* and await it.  A task whose handle was dropped meanwhile ends at this await.
RdStartFetch ==
    /\ rd_pc = "loop"
    /\ rd_last' = "fetch"
    /\ rd_pc' = IF mux = "dropped" THEN "cancelled" ELSE "fetching"
    /\ UNCHANGED <<ctx, mux, owner, pipes, attempts, notified, rd_bridges, rd_same>>
    /\ UNCHANGED gs_vars
    /\ UNCHANGED <<refreshers, tally>>

\* Line 198: get_bridges_v2 returned a list.
RdFetchOk ==
    /\ rd_pc = "fetching"
    /\ \E r \in BridgeResults :
          /\ r.ok
          /\ rd_bridges' = r
          /\ rd_same' = (r = rd_bridges)
    /\ rd_pc' = "resolve"
    /\ rd_last' = "fetch_ok"
    /\ UNCHANGED <<ctx, mux, owner, pipes, attempts, notified>>
    /\ UNCHANGED gs_vars
    /\ UNCHANGED <<refreshers, tally>>

\* Lines 198 and 237-239: get_bridges_v2 failed; the error is logged and the
\* inner loop goes round.
RdFetchErr ==
    /\ rd_pc = "fetching"
    /\ rd_bridges' = Failed
    /\ rd_same' = FALSE
    /\ rd_pc' = "loop"
    /\ rd_last' = "fetch_err"
    /\ UNCHANGED <<ctx, mux, owner, pipes, attempts, notified>>
    /\ UNCHANGED gs_vars
    /\ UNCHANGED <<refreshers, tally>>

\* Lines 199-235: the Weak upgrades; spawn one detached task per new bridge,
\* each with a clone of the Arc; the inner loop goes round.
RdResolve ==
    /\ rd_pc = "resolve"
    /\ mux = "live"
    /\ LET new_bridges == NewBridges(rd_bridges.list, CurrentAddrs(pipes))
       IN  /\ BagCardinality(attempts) + Len(new_bridges) <= MaxInFlight
           /\ attempts' = attempts (+) Spawned(new_bridges, sess_id)
    /\ rd_pc' = "loop"
    /\ rd_last' = "upgrade_ok"
    /\ UNCHANGED <<ctx, mux, owner, pipes, notified, rd_bridges, rd_same>>
    /\ UNCHANGED gs_vars
    /\ UNCHANGED <<refreshers, tally>>

\* Lines 199 and 237-239: the Weak does not upgrade; "multiplex is dead" is
\* logged and the inner loop goes round.
RdResolveDead ==
    /\ rd_pc = "resolve"
    /\ mux = "dropped"
    /\ rd_pc' = "loop"
    /\ rd_last' = "upgrade_failed"
    /\ UNCHANGED <<ctx, mux, owner, pipes, attempts, notified, rd_bridges, rd_same>>
    /\ UNCHANGED gs_vars
    /\ UNCHANGED <<refreshers, tally>>

\* Line 114: the task was woken (by its timer or by the cache's answer) but not
\* yet polled when its handle was dropped with the Multiplex: it never runs again.
RdDropped ==
    /\ mux = "dropped"
    /\ \/ rd_pc = "resolve"
       \/ rd_pc = "loop" /\ rd_last \in {"timer", "fetch_err"}
    /\ rd_pc' = "cancelled"
    /\ UNCHANGED <<ctx, mux, owner, pipes, attempts, notified, rd_last, rd_bridges,
                   rd_same>>
    /\ UNCHANGED gs_vars
    /\ UNCHANGED <<refreshers, tally>>

\* ------------------------------------------------------- the specifications

Next ==
    \/ GsParse
    \/ GsConnectStart
    \/ GsConnectOk
    \/ GsConnectErr
    \/ GsClosestExit
    \/ GsGetBridges
    \/ GsBuild
    \/ GsSpawn
    \/ GsReturn
    \/ OwnerRelease
    \/ \E a \in BagToSet(attempts) : AttemptStart(a)
    \/ \E a \in BagToSet(attempts) : AttemptOk(a)
    \/ \E a \in BagToSet(attempts) : AttemptErr(a)
    \/ \E a \in BagToSet(attempts) : AttemptTimeout(a)
    \/ RdTimer
    \/ RdStartFetch
    \/ RdFetchOk
    \/ RdFetchErr
    \/ RdResolve
    \/ RdResolveDead
    \/ RdDropped

Spec == Init /\ [][Next]_vars

\* The executor polls every woken task, the 10 s timeout of a connect fires if
\* the connect has not answered, and the 300 s timer and the discovery cache
\* answer.  No peer need ever answer a connect: neither that of an attempt,
\* which then ends by its timeout, nor that of independent mode, which has
\* none.  The caller may keep its Arc for ever.
AttemptStep == \E a \in BagToSet(attempts) : AttemptStart(a)
AttemptDone == \E a \in BagToSet(attempts) : AttemptTimeout(a)

\* get_session's own steps, all but the answer of an independent-mode connect.
GsStep ==
    GsParse \/ GsConnectStart \/ GsClosestExit \/ GsGetBridges \/ GsBuild \/ GsSpawn \/ GsReturn

\* replace_dead's steps.
RdStep ==
    RdTimer \/ RdStartFetch \/ RdFetchOk \/ RdFetchErr \/ RdResolve \/ RdResolveDead \/ RdDropped

\* get_session and replace_dead are each one sequential task, at one place at
\* a time, so one condition on all of its steps is fairness for each of them.
Fairness ==
    /\ WF_vars(GsStep)
    /\ WF_vars(AttemptStep)
    /\ WF_vars(AttemptDone)
    /\ WF_vars(RdStep)

FairSpec == Init /\ [][Next]_vars /\ Fairness

\* Only get_session is sure to be polled: no attempt task need ever run, and no
\* connect need ever answer or time out.
GsFairSpec == Init /\ [][Next]_vars /\ WF_vars(GsStep)

\* ---------------------------------------------------------------- the claims

\* The caller has dropped the Arc that get_session returned to it.
Released == result = "ok" /\ ~owner

\* This step starts a get_bridges_v2(hostname, true) call of the refresher.
FetchStarts == rd_last' = "fetch" /\ rd_last # "fetch"

\* C1: once Weak::upgrade has failed in a refresh cycle the refresher is
\* stopped for good: it does nothing more (no further fetch, no further
\* upgrade, no further attempt scheduled).
C1_StoppedAfterFailedUpgrade ==
    [][rd_last = "upgrade_failed" => UNCHANGED <<rd_last, rd_bridges, rd_same, attempts>>]_vars

\* C2: after the caller has released the session the refresher starts no
\* get_bridges_v2 call: the number of calls started after the release is zero.
C2_NoFetchAfterRelease ==
    [][Released => ~FetchStarts]_vars

\* C3: after the caller has released the session, the session is eventually
\* freed (its strong count reaches zero), whatever the attempts do.
C3_EventuallyFreed ==
    Released ~> (mux = "dropped")

\* C4: every force-fresh fetch of the refresher comes straight after a full wait
\* of the 5-minute timer: two refresh cycles never run back to back.
C4_FetchOnlyAfterTimer ==
    [][FetchStarts => rd_last = "timer"]_vars

\* C5: after get_bridges_v2 has failed in a refresh cycle the refresher is back
\* in Idle, waiting for its interval timer (unless it was cancelled meanwhile).
C5_ErrorReturnsToIdle ==
    rd_last = "fetch_err" => rd_pc \in {"idle", "cancelled"}

\* This step is a refresh cycle that resolved its Weak, and the cache had
\* returned to it the list it returned to the cycle before.
SecondCycleResolves == rd_pc = "resolve" /\ rd_last' = "upgrade_ok" /\ rd_same

\* Some pipe of the Multiplex is connected to bridge br.
Attached(br) == \E p \in BagToSet(pipes) : p.peer_addr = br.endpoint

\* Bridge br is in the list of the refresher's latest cycle.
Listed(br) == \E i \in 1..Len(rd_bridges.list) : rd_bridges.list[i] = br

\* C6 as stated: when the cache returns the same list in two consecutive
\* refresh cycles, the second cycle schedules no attempt at all.
C6_SecondCycleSchedulesNone ==
    [][SecondCycleResolves => attempts' = attempts]_vars

\* C6 amended: when the cache returns the same list in two consecutive refresh
\* cycles, the second cycle schedules exactly one attempt for every bridge of
\* the list that no attached pipe is connected to, and none for a bridge that a
\* pipe is attached for; so none at all when every bridge of the list is attached.
C6_SecondCycleSchedulesUnattached ==
    [][SecondCycleResolves =>
          \A br \in BridgeUniverse :
              LET a == [desc |-> br, meta |-> sess_id, st |-> "start"]
              IN  CopiesIn(a, attempts') =
                      CopiesIn(a, attempts) + (IF Listed(br) /\ ~Attached(br) THEN 1 ELSE 0)]_vars

\* C6 witness: a second cycle over the same non-empty list has resolved while a
\* pipe of one of its bridges is attached and another bridge has none.
C6_Witness ==
    /\ rd_last = "upgrade_ok"
    /\ rd_same
    /\ \E br \in BridgeUniverse : Listed(br) /\ Attached(br)
    /\ \E br \in BridgeUniverse : Listed(br) /\ ~Attached(br)

\* C7: in discovered mode the attached pipes have pairwise distinct peer
\* addresses: no pipe is added for an address that already has one.
C7_DistinctPeerAddrs ==
    ctx.tag = "Binder" =>
        \A p \in BagToSet(pipes) :
            /\ CopiesIn(p, pipes) = 1
            /\ \A q \in BagToSet(pipes) : q.peer_addr = p.peer_addr => q = p

\* The address text of an independent endpoint: what follows its first '@'.
ConfiguredAddr == ParseSocketAddr(Split(ctx.endpoint, "@")[2])

\* C8: an independent-mode construction that succeeds returns a session of
\* exactly 4 pipes, all to the configured peer address and all carrying the one
\* session identifier, created with no expected peer key; this mode starts no
\* refresher and no detached attempt.
C8_IndependentSession ==
    ctx.tag = "Independent" =>
        /\ attempts = EmptyBag
        /\ rd_pc = "none"
        /\ result = "ok" =>
              /\ BagCardinality(pipes) = NumPipes
              /\ \A p \in BagToSet(pipes) :
                    p.peer_addr = ConfiguredAddr /\ p.meta = sess_id
              /\ sess_id \in SessIds
              /\ peer_key = None

\* C8 witness: an independent-mode construction has returned a session.
C8_Witness ==
    ctx.tag = "Independent" /\ result = "ok" /\ BagCardinality(pipes) = NumPipes

\* One of the connects that independent mode started has failed.
SomeConnectFailed ==
    connect_calls > BagCardinality(pipes) + (IF gs_pc = "connecting" THEN 1 ELSE 0)

\* C9: independent-mode construction is all-or-nothing and never retries: at
\* most 4 connects are started, and once one of them has failed get_session has
\* returned that error, no session is held by anyone, and no further connect
\* is started.
C9_AllOrNothing ==
    ctx.tag = "Independent" =>
        /\ connect_calls <= NumPipes
        /\ SomeConnectFailed =>
              /\ result = "err"
              /\ error = "connect"
              /\ gs_pc = "done"
              /\ ~owner
              /\ mux = "dropped"
              /\ connect_calls = BagCardinality(pipes) + 1

\* C9 witness: the third connect failed after two pipes had been added.
C9_Witness ==
    ctx.tag = "Independent" /\ SomeConnectFailed /\ BagCardinality(pipes) = 2

\* Discovered-mode resolution has failed: the exit lookup or the bridge fetch
\* returned an error, or the fetch returned an empty list.
ResolutionFailed ==
    /\ ctx.tag = "Binder"
    /\ gs_pc = "done"
    /\ gs_bridges = Failed \/ (gs_bridges.ok /\ gs_bridges.list = <<>>)

\* No Multiplex was created, no attempt scheduled, no refresher started, and
\* nothing went to the network or the status callback.
NoSideEffect ==
    /\ mux = "none"
    /\ ~owner
    /\ attempts = EmptyBag
    /\ pipes = EmptyBag
    /\ notified = {}
    /\ rd_pc = "none"

\* C10: when the closest-exit lookup fails, the bridge-list fetch fails or the
\* list is empty, get_session returns an error and has created no session,
\* scheduled no attempt and started no refresher; nor has it done any of that
\* before the lookup, the fetch and the empty check are through.
C10_ResolutionFailureNoSideEffect ==
    /\ ResolutionFailed =>
          /\ result = "err"
          /\ error \in {"closest_exit", "bridges", "no_routes"}
          /\ NoSideEffect
    /\ (ctx.tag = "Binder" /\ gs_pc \in {"start", "get_bridges", "build"}) =>
          result = "pending" /\ NoSideEffect

\* C10 witness: get_session has returned on an empty bridge list.
C10_Witness ==
    ResolutionFailed /\ gs_bridges.ok /\ error = "no_routes"

\* Bridge br is an obfsudp bridge whose blob decodes as (ObfsUdpPublic, MuxPublic).
Qualifies(br) == br.protocol = UDP /\ BincodeKeys(br.sosistab_key).ok

\* The bridges of the list get_session fetched that qualify.
QualifyingBridges == {i \in 1..Len(gs_bridges.list) : Qualifies(gs_bridges.list[i])}

\* get_session is through key derivation on a non-empty list (and has not yet
\* consumed the list by spawning).
KeyDerivationDone ==
    /\ ctx.tag = "Binder"
    /\ gs_pc \in {"spawn", "done"}
    /\ gs_bridges.ok
    /\ gs_bridges.list # <<>>

\* C11: discovered-mode construction derives the expected peer key if and only
\* if some bridge of the list is an obfsudp bridge with a decodable blob,
\* wherever it stands in the list and whatever stands before or after it; the
\* key is the end-to-end key of such a bridge; if none qualifies get_session
\* fails with the key-derivation error, no session created, no attempt scheduled.
C11_KeyDerivation ==
    KeyDerivationDone =>
        IF QualifyingBridges # {}
        THEN /\ gs_pc = "spawn"
             /\ result = "pending"
             /\ mux = "live"
             /\ \E i \in QualifyingBridges :
                   peer_key = BincodeKeys(gs_bridges.list[i].sosistab_key).mux
        ELSE /\ gs_pc = "done"
             /\ result = "err"
             /\ error = "no_key"
             /\ peer_key = None
             /\ NoSideEffect

\* C11 witness: the key was derived from the second bridge of a list whose
\* first bridge is an obfsudp bridge without a decodable blob.
C11_Witness ==
    /\ KeyDerivationDone
    /\ Len(gs_bridges.list) = 2
    /\ gs_bridges.list[1].protocol = UDP
    /\ ~Qualifies(gs_bridges.list[1])
    /\ Qualifies(gs_bridges.list[2])
    /\ peer_key = "e2e"

\* The descriptor of the bridge at an address.
DescOf(addr) == CHOOSE br \in BridgeUniverse : br.endpoint = addr

\* Policy rejects descriptor br: it is marked direct while bridge use is
\* required, or a protocol pattern is configured and its protocol does not match.
PolicyRejects(br) ==
    /\ ctx.tag = "Binder"
    /\ \/ ctx.use_bridges /\ br.is_direct
       \/ /\ ctx.force_protocol # None
          /\ RegexValid(ctx.force_protocol)
          /\ ~RegexIsMatch(ctx.force_protocol, br.protocol)

\* The configured protocol pattern matches the protocol of no bridge.
FilterMatchesNothing ==
    /\ ctx.tag = "Binder"
    /\ ctx.force_protocol # None
    /\ RegexValid(ctx.force_protocol)
    /\ \A br \in BridgeUniverse : ~RegexIsMatch(ctx.force_protocol, br.protocol)

\* C12: an attempt whose descriptor policy rejects never gets to its connect,
\* emits no status notification and adds no pipe; so with a protocol pattern
\* that matches no bridge no attempt does any I/O, and get_session, once the
\* key is derived, still returns a session.
C12_FilterPrecedesIO ==
    ctx.tag = "Binder" =>
        /\ \A a \in BagToSet(attempts) : PolicyRejects(a.desc) => a.st = "start"
        /\ \A e \in notified : ~PolicyRejects(DescOf(e))
        /\ \A p \in BagToSet(pipes) : ~PolicyRejects(DescOf(p.peer_addr))
        /\ FilterMatchesNothing =>
              /\ notified = {}
              /\ pipes = EmptyBag
              /\ \A a \in BagToSet(attempts) : a.st = "start"
              /\ (gs_pc = "done" /\ peer_key # None) => result = "ok"

\* C12 witness: under a pattern that matches no bridge get_session has returned
\* a session and all its bootstrap attempts have run and ended.
C12_Witness ==
    /\ FilterMatchesNothing
    /\ result = "ok"
    /\ mux = "live"
    /\ rd_last = "spawned"
    /\ attempts = EmptyBag

\* The errors get_session returns in discovered mode: all from its own
\* resolution and key derivation.
ResolutionErrors == {"closest_exit", "bridges", "no_routes", "no_key"}

\* Of the tally.n bootstrap attempts scheduled together, tally.ok have succeeded
\* and tally.failed have failed; the others are in flight.
TallyContained ==
    tally.open =>
        /\ tally.ok + tally.failed + BagCardinality(attempts) = tally.n
        /\ BagCardinality(pipes) = tally.ok
        /\ attempts = EmptyBag => BagCardinality(pipes) = tally.n - tally.failed

\* This step ends attempt a.
Ends(a) == attempts' = attempts (-) SetToBag({a})

\* C13: attempt outcomes are contained.  Of N attempts scheduled together of
\* which k succeed and the others fail, the session holds exactly k pipes once
\* all have ended; no attempt's failure is returned to the caller;
\* whatever its siblings did, an attempt whose connect is under way can still
\* attach its pipe; and the end of any attempt, bootstrap or refresh, adds the
\* pipe of that attempt or nothing, removes no pipe, and leaves what
\* get_session returned as it was.
C13_OutcomesContained ==
    /\ [](ctx.tag = "Binder" =>
            /\ TallyContained
            /\ result = "err" => error \in ResolutionErrors /\ attempts = EmptyBag
            /\ (gs_pc = "done" /\ mux # "none") => result = "ok"
            /\ \A a \in BagToSet(attempts) :
                  (a.st = "io" /\ BagCardinality(pipes) < MaxPipes) => ENABLED AttemptOk(a))
    /\ [][\A a \in BagToSet(attempts) :
              Ends(a) =>
                  /\ result' = result /\ error' = error /\ gs_pc' = gs_pc
                  /\ \/ pipes' = pipes
                     \/ a.st = "io" /\ pipes' = pipes (+) SetToBag({ConnectedPipe(a.desc, a.meta)})]_vars

\* C13 witness: of two bootstrap attempts one has succeeded and one has failed,
\* both have ended, and the session that get_session returned holds one pipe.
C13_Witness ==
    /\ tally.open
    /\ tally.n = 2 /\ tally.ok = 1 /\ tally.failed = 1
    /\ attempts = EmptyBag
    /\ BagCardinality(pipes) = 1
    /\ result = "ok"

\* Discovered-mode get_session has derived the key and created the Multiplex.
SessionCreated == ctx.tag = "Binder" /\ gs_pc = "spawn"

\* C14: in discovered mode, once the key is derived, get_session returns the
\* session whether or not any attempt ever starts, succeeds, fails or times
\* out: it returns even in behaviours where no attempt task ever takes a step.
C14_ReturnsWithoutWaiting ==
    SessionCreated ~> (result = "ok" /\ gs_pc = "done")

\* C14 witness: get_session has returned the session, the session holds no
\* pipe, and every bootstrap attempt is still pending, not even started.
C14_Witness ==
    /\ ctx.tag = "Binder"
    /\ result = "ok"
    /\ pipes = EmptyBag
    /\ tally.open /\ tally.n = MaxBridges
    /\ BagCardinality(attempts) = tally.n
    /\ \A a \in BagToSet(attempts) : a.st = "start"

\* C15: exactly one refresher is started by every successful discovered-mode
\* construction and none by a failed or an independent-mode one; there is
\* never more than one; and the refresher holds no strong reference: the
\* Multiplex is alive only while the caller's Arc or an attempt's clone is.
C15_OneWeakRefresher ==
    /\ refreshers <= 1
    /\ refreshers = 1 <=> (ctx.tag = "Binder" /\ result = "ok")
    /\ refreshers = 0 <=> rd_pc = "none"
    /\ mux = "live" => (owner \/ attempts # EmptyBag)

\* C15 witness: the one refresher of a session was started, and the session was
\* freed, when its last strong owner went, while the refresher was still there.
C15_Witness ==
    /\ refreshers = 1
    /\ ~owner
    /\ mux = "dropped"
    /\ rd_pc = "cancelled"

\* C16: a session has one identifier, generated once and never again, and
\* every connect call made for the session (by the independent-mode loop, by a
\* bootstrap attempt, by an attempt of any refresh cycle) carries it as its
\* metadata: no attempt and no pipe exists before it is generated, and none
\* ever carries another value.
C16_OneSessionId ==
    /\ [](/\ sess_id = None => (attempts = EmptyBag /\ pipes = EmptyBag)
          /\ sess_id # None => sess_id \in SessIds
          /\ \A a \in BagToSet(attempts) : a.meta = sess_id
          /\ \A p \in BagToSet(pipes) : p.meta = sess_id)
    /\ [][sess_id # None => sess_id' = sess_id]_vars

\* C16 witness: a pipe of a bootstrap attempt is attached while an attempt of
\* a later refresh cycle is connecting, both with the session's identifier.
C16_Witness ==
    /\ ctx.tag = "Binder"
    /\ rd_last = "upgrade_ok"
    /\ \E p \in BagToSet(pipes) : p.meta = sess_id
    /\ \E a \in BagToSet(attempts) : a.st = "io" /\ a.meta = sess_id

\* Bootstrap attempts are in flight (and the refresher has spawned none yet).
BootstrapPending == ctx.tag = "Binder" /\ tally.open /\ attempts # EmptyBag

WellFormed(e) ==
    /\ Cardinality(SepPlaces(e, "@")) = 1
    /\ LET at == CHOOSE p \in SepPlaces(e, "@") : TRUE
       IN  /\ at = 2 * KeyLen + 1
           /\ \A i \in 1..(at - 1) : IsHexDigit(e[i])
           /\ ParseSocketAddr(SubSeq(e, at + 1, Len(e))) # Err

\* The byte that two hex digits encode.
ByteOf(hi, lo) == 16 * HexVal(hi) + HexVal(lo)

\* C18: parse_independent_endpoint returns, for every text of the form
\* <64 hex characters>@<host:port>, the 32 bytes the hex part encodes and the
\* address after the separator, and for every other text (no '@', more than
\* one '@', a key that is not hex or not 32 bytes, an unparsable address) an
\* error, which get_session returns.
C18_ParseContract ==
    (ctx.tag = "Independent" /\ gs_pc # "start") =>
        IF WellFormed(ctx.endpoint)
        THEN /\ peer.ok
             /\ peer.pk = [i \in 1..KeyLen |->
                              ByteOf(ctx.endpoint[2 * i - 1], ctx.endpoint[2 * i])]
             /\ peer.addr = ParseSocketAddr(SubSeq(ctx.endpoint, 2 * KeyLen + 2,
                                                   Len(ctx.endpoint)))
        ELSE /\ ~peer.ok
             /\ result = "err"
             /\ error = "format"

\* Independent-mode construction is under way and has connects left to start.
ConnectsLeft ==
    /\ ctx.tag = "Independent"
    /\ result = "pending"
    /\ mux = "live"
    /\ connect_calls < NumPipes

\* C19: independent mode opens its 4 pipes concurrently: as long as fewer than
\* 4 connects were started the next one can start, whether or not an earlier
\* one is still in flight; no connect waits for another to complete.
C19_ConnectsStartConcurrently ==
    ConnectsLeft => ENABLED GsConnectStart

\* An independent-mode construction is pending.
IndependentPending == ctx.tag = "Independent" /\ result = "pending"

\* C20: independent-mode get_session eventually returns, with a session or an
\* error, even when the peer never answers a connect.
C20_IndependentReturns ==
    IndependentPending ~> (result # "pending")

====
